---------------------------- MODULE Spec2Model ----------------------------
(***************************************************************************)
(* A model of env-manager (src/src/manager.py, src/src/cli.py).            *)
(*                                                                         *)
(* Text is modelled as a sequence of characters, each character a string   *)
(* of length one; "\n" is the newline.  A file is its whole text, as       *)
(* read_text() returns it and write_text() stores it.  The two blocks of a *)
(* Fernet token that are not printable text of the file (the IV and the    *)
(* HMAC) are single atoms of the token's sequence.                         *)
(***************************************************************************)
EXTENDS Integers, Sequences, FiniteSets, TLC

VARIABLES
    file,       \* the text of the environment file (.env), or NoFile
    orig,       \* the text of the environment file before the first call
    ops,        \* the calls made so far, oldest first
    template,   \* the text of the template file (.env.example), or NoFile
    environ,    \* os.environ: a function from the keys it holds to values
    line,       \* the argument of parse_template_line
    result,     \* what the last call returned
    exit_code,  \* the exit status of the last command
    stderr      \* what the last command wrote to standard error

vars == <<file, orig, ops, template, environ, line, result, exit_code, stderr>>

otherThanCipher == <<template, environ, line, result, exit_code, stderr>>

-----------------------------------------------------------------------------
(* Bounds of the model *)

\* the number of calls in one behaviour
MaxOps == 3

\* the number of lines of the environment file a behaviour starts from
MaxLines == 2

-----------------------------------------------------------------------------
(* Python's str operations, on sequences of characters *)

NL == "\n"

\* what stands for the text of a file that does not exist
NoFile == <<"<no file>">>

\* Python's None
None == <<"<None>">>

isspace(c) == c \in {" ", "\t", NL}

RECURSIVE lstrip(_)
lstrip(s) == IF s # <<>> /\ isspace(Head(s)) THEN lstrip(Tail(s)) ELSE s

RECURSIVE rstrip(_)
rstrip(s) ==
    IF s # <<>> /\ isspace(s[Len(s)]) THEN rstrip(SubSeq(s, 1, Len(s) - 1)) ELSE s

strip(s) == rstrip(lstrip(s))

startswith(s, p) == Len(s) >= Len(p) /\ SubSeq(s, 1, Len(p)) = p

\* the index of the first occurrence of character c in s, 0 when there is none
find(s, c) ==
    LET hits == { i \in 1..Len(s) : s[i] = c }
    IN  IF hits = {} THEN 0 ELSE CHOOSE i \in hits : \A j \in hits : i <= j

\* text.split('\n'): never empty; a text ending in "\n" ends in an empty piece
RECURSIVE split(_)
split(text) ==
    LET i == find(text, NL)
    IN  IF i = 0 THEN <<text>>
        ELSE <<SubSeq(text, 1, i - 1)>> \o split(SubSeq(text, i + 1, Len(text)))

\* '\n'.join(lines)
RECURSIVE join(_)
join(lines) ==
    IF lines = <<>> THEN <<>>
    ELSE IF Len(lines) = 1 THEN lines[1]
    ELSE lines[1] \o <<NL>> \o join(Tail(lines))

-----------------------------------------------------------------------------
(* cryptography.fernet, as manager.py uses it *)

Passwords == {"k1", "k2"}

\* the random IV of one fernet.encrypt call
IVs == {"iv0", "iv1"}

\* 'gAAAAAB': the base64 of the version byte and the high bytes of the timestamp
Marker == <<"g", "A", "A", "A", "A", "A", "B">>

\* sha256 then base64: deterministic, and distinct passwords give distinct keys
get_encryption_key(password) == "sha256:" \o password

Hmac(key_bytes) == "hmac:" \o key_bytes

\* Fernet(key).encrypt(data): the marker, the IV, the body and the HMAC
fernet_encrypt(key_bytes, iv, data) == Marker \o <<iv>> \o data \o <<Hmac(key_bytes)>>

\* whether Fernet(key).decrypt(token) returns rather than raising InvalidToken
fernet_valid(key_bytes, token) ==
    /\ startswith(token, Marker)
    /\ Len(token) >= Len(Marker) + 2
    /\ token[Len(Marker) + 1] \in IVs
    /\ token[Len(token)] = Hmac(key_bytes)

fernet_decrypt(key_bytes, token) == SubSeq(token, Len(Marker) + 2, Len(token) - 1)

-----------------------------------------------------------------------------
(* encrypt_env_file and decrypt_env_file *)

\* the line is copied as it is: it holds no '=' or is a comment
passes_through(ln) == find(ln, "=") = 0 \/ startswith(strip(ln), <<"#">>)

key_part(ln) == SubSeq(ln, 1, find(ln, "=") - 1)

\* line.split('=', 1)[1].strip()
value_part(ln) == strip(SubSeq(ln, find(ln, "=") + 1, Len(ln)))

\* encrypt_line without the test for the marker: a token is encrypted again
encrypt_line_unmarked(ln, key_bytes, iv) ==
    IF passes_through(ln) THEN ln
    ELSE key_part(ln) \o <<"=">> \o fernet_encrypt(key_bytes, iv, value_part(ln))

\* the body of encrypt_env_file's loop
encrypt_line(ln, key_bytes, iv) ==
    IF passes_through(ln) THEN ln
    ELSE IF ~startswith(value_part(ln), Marker)
         THEN key_part(ln) \o <<"=">> \o fernet_encrypt(key_bytes, iv, value_part(ln))
         ELSE ln

\* decrypt_line without the except branch: what a cipher that does not
\* authenticate gives under any key replaces the value
decrypt_line_unauthenticated(ln, key_bytes) ==
    IF passes_through(ln) THEN ln
    ELSE IF startswith(value_part(ln), Marker)
         THEN key_part(ln) \o <<"=">> \o fernet_decrypt(key_bytes, value_part(ln))
         ELSE ln

\* the body of decrypt_env_file's loop
decrypt_line(ln, key_bytes) ==
    IF passes_through(ln) THEN ln
    ELSE IF startswith(value_part(ln), Marker)
         THEN IF fernet_valid(key_bytes, value_part(ln))
              THEN key_part(ln) \o <<"=">> \o fernet_decrypt(key_bytes, value_part(ln))
              ELSE ln
         ELSE ln

\* what write_text stores: the lines joined, then one more newline
written(lines) == join(lines) \o <<NL>>

\* the text encrypt_env_file writes; ivs[i] is the IV drawn for line i
encrypt_env_file(text, key, ivs) ==
    LET lines == split(text)
    IN  written([i \in 1..Len(lines) |->
                    encrypt_line(lines[i], get_encryption_key(key), ivs[i])])

\* the text decrypt_env_file writes
decrypt_env_file(text, key) ==
    LET lines == split(text)
    IN  written([i \in 1..Len(lines) |->
                    decrypt_line(lines[i], get_encryption_key(key))])

-----------------------------------------------------------------------------
(* The environment files a behaviour starts from *)

LinePool ==
    { <<"A", "=", "1">>,                                   \* A=1
      <<"B", "=", " ", "x", " ">>,                         \* B= x  (padded value)
      <<"#", " ", "c", "=", "1">>,                         \* a comment holding '='
      <<"D", "=">>,                                        \* an empty value
      <<"C", "=">> \o Marker \o <<"z">> }                  \* marker, but no token

LineSeqs == UNION { [1..n -> LinePool] : n \in 1..MaxLines }

\* with and without the newline at the end of the file
EnvFiles == { written(ls) : ls \in LineSeqs } \cup { join(ls) : ls \in LineSeqs }

-----------------------------------------------------------------------------
(* The cipher operations on one environment file *)

\* the lines of text on which encrypt_env_file draws an IV
NeedsIV(text) ==
    LET lines == split(text)
    IN  { i \in 1..Len(lines) :
            ~passes_through(lines[i]) /\ ~startswith(value_part(lines[i]), Marker) }

InitCipher ==
    /\ file \in EnvFiles
    /\ orig = file
    /\ ops = <<>>
    /\ template = NoFile
    /\ environ = <<>>
    /\ line = <<>>
    /\ result = None
    /\ exit_code = 0
    /\ stderr = <<>>

Encrypt ==
    /\ Len(ops) < MaxOps
    /\ \E key \in Passwords :
       \E drawn \in [NeedsIV(file) -> IVs] :
          LET ivs == [i \in 1..Len(split(file)) |->
                        IF i \in DOMAIN drawn THEN drawn[i] ELSE "iv0"]
          IN  /\ file' = encrypt_env_file(file, key, ivs)
              /\ ops' = Append(ops, <<"encrypt", key>>)
    /\ UNCHANGED <<orig, otherThanCipher>>

Decrypt ==
    /\ Len(ops) < MaxOps
    /\ \E key \in Passwords :
          /\ file' = decrypt_env_file(file, key)
          /\ ops' = Append(ops, <<"decrypt", key>>)
    /\ UNCHANGED <<orig, otherThanCipher>>

NextCipher == Encrypt \/ Decrypt

SpecCipher == InitCipher /\ [][NextCipher]_vars

-----------------------------------------------------------------------------
(* Claims about the cipher operations *)

Last(s) == s[Len(s)]

\* the text ends with exactly one newline
EndsWithOneNewline(text) ==
    /\ text # <<>>
    /\ Last(text) = NL
    /\ Len(text) > 1 => text[Len(text) - 1] # NL

\* every line is blank, a comment, or KEY=VALUE with no blanks around the value
\* and a value that does not carry the marker
WellFormedEnv(text) ==
    /\ EndsWithOneNewline(text)
    /\ LET lines == split(text)
       IN  \A i \in 1..Len(lines) :
          LET ln == lines[i]
          IN  \/ passes_through(ln)
              \/ /\ key_part(ln) # <<>>
                 /\ SubSeq(ln, find(ln, "=") + 1, Len(ln)) = value_part(ln)
                 /\ ~startswith(value_part(ln), Marker)

\* no value of an assignment line of the text carries the marker
PlainValues(text) ==
    LET lines == split(text)
    IN  \A i \in 1..Len(lines) :
            passes_through(lines[i]) \/ ~startswith(value_part(lines[i]), Marker)

\* the tokens fernet.encrypt may return for data under the password
TokensOf(key, data) == { fernet_encrypt(get_encryption_key(key), iv, data) : iv \in IVs }

\* C1: for every well-formed environment file and every passphrase k,
\* encrypt_env_file(file, k) followed by decrypt_env_file(file, k) leaves the
\* file with exactly its original text.
C1_RoundTrip ==
    \A k \in Passwords :
        (WellFormedEnv(orig) /\ ops = << <<"encrypt", k>>, <<"decrypt", k>> >>)
            => file = orig

\* C2: running encrypt_env_file a second time with the same passphrase leaves
\* the file as the first run left it.
C2_EncryptIdempotent ==
    [][ \A k \in Passwords :
            (ops # <<>> /\ Last(ops) = <<"encrypt", k>>
                /\ ops' = Append(ops, <<"encrypt", k>>))
            => file' = file ]_vars

\* C7: starting from a file that ends with exactly one newline, after any
\* sequence of encrypt_env_file and decrypt_env_file calls the file has the
\* same number of lines and still ends with exactly one newline.
C7_LineStructurePreserved ==
    EndsWithOneNewline(orig) =>
        /\ Len(split(file)) = Len(split(orig))
        /\ EndsWithOneNewline(file)

\* C4: decrypt_env_file with a passphrase other than the one a line was
\* encrypted with leaves that line as it is, and a later decrypt_env_file
\* with the right passphrase gives the value that was encrypted.
C4_WrongKeyHarmless ==
    /\ [][ \A k1, k2 \in Passwords :
            (k1 # k2 /\ ops' = Append(ops, <<"decrypt", k2>>)) =>
                LET before == split(file)
                    after  == split(file')
                IN  \A i \in 1..Len(before) :
                        (~passes_through(before[i])
                            /\ fernet_valid(get_encryption_key(k1), value_part(before[i])))
                        => after[i] = before[i] ]_vars
    /\ [](\A k1, k2 \in Passwords :
            (k1 # k2 /\ ops = << <<"encrypt", k1>>, <<"decrypt", k2>>, <<"decrypt", k1>> >>)
                => LET first == split(orig)
                       now   == split(file)
                   IN  \A i \in 1..Len(first) :
                          (~passes_through(first[i])
                              /\ ~startswith(value_part(first[i]), Marker))
                          => now[i] = key_part(first[i]) \o <<"=">> \o value_part(first[i]))

\* C4 witness: a line encrypted under k1 has gone through a decrypt with k2
\* and the decrypt with k1 has brought its value back.
C4_Witness ==
    /\ ops = << <<"encrypt", "k1">>, <<"decrypt", "k2">>, <<"decrypt", "k1">> >>
    /\ split(orig)[1] = <<"B", "=", " ", "x", " ">>
    /\ split(file)[1] = <<"B", "=", "x">>

\* C10: starting from values that do not carry the marker, every value is at
\* all times its original (trimmed) plaintext or that plaintext encrypted once
\* under one passphrase, which a decrypt with that passphrase turns back into
\* the plaintext; and encrypt_env_file never changes a line holding a token.
C10_NoNestedEncryption ==
    /\ [](PlainValues(orig) =>
            LET first == split(orig)
                now   == split(file)
            IN  \A i \in 1..Len(first) :
                    ~passes_through(first[i]) =>
                        /\ ~passes_through(now[i])
                        /\ key_part(now[i]) = key_part(first[i])
                        /\ \/ value_part(now[i]) = value_part(first[i])
                           \/ \E k \in Passwords :
                                /\ value_part(now[i]) \in TokensOf(k, value_part(first[i]))
                                /\ decrypt_line(now[i], get_encryption_key(k))
                                       = key_part(first[i]) \o <<"=">> \o value_part(first[i]))
    /\ [][ (PlainValues(orig) /\ \E k \in Passwords : ops' = Append(ops, <<"encrypt", k>>)) =>
            LET before == split(file)
                after  == split(file')
            IN  \A i \in 1..Len(before) :
                    (~passes_through(before[i]) /\ startswith(value_part(before[i]), Marker))
                    => after[i] = before[i] ]_vars

\* C10 witness: a value encrypted under k1 has gone through an encrypt with
\* k2 and is still the token made under k1.
C10_Witness ==
    /\ PlainValues(orig)
    /\ Len(ops) = 2
    /\ ops[1] = <<"encrypt", "k1">>
    /\ ops[2] = <<"encrypt", "k2">>
    /\ split(orig)[1] = <<"A", "=", "1">>
    /\ value_part(split(file)[1]) \in TokensOf("k1", <<"1">>)

-----------------------------------------------------------------------------
(* parse_template_line *)

UpperCase == <<"A", "B", "C", "D", "E", "F", "G", "H", "I", "J", "K", "L", "M",
               "N", "O", "P", "Q", "R", "S", "T", "U", "V", "W", "X", "Y", "Z">>

LowerCase == <<"a", "b", "c", "d", "e", "f", "g", "h", "i", "j", "k", "l", "m",
               "n", "o", "p", "q", "r", "s", "t", "u", "v", "w", "x", "y", "z">>

Digits == {"0", "1", "2", "3", "4", "5", "6", "7", "8", "9"}

Range(s) == { s[i] : i \in 1..Len(s) }

\* str.lower()
lower(s) ==
    [i \in 1..Len(s) |->
        IF s[i] \in Range(UpperCase) THEN LowerCase[find(UpperCase, s[i])] ELSE s[i]]

\* t in s, for strings
contains(s, t) ==
    \E i \in 1..(Len(s) - Len(t) + 1) : SubSeq(s, i, i + Len(t) - 1) = t

W_required == <<"r", "e", "q", "u", "i", "r", "e", "d">>
W_optional == <<"o", "p", "t", "i", "o", "n", "a", "l">>
W_encrypted == <<"e", "n", "c", "r", "y", "p", "t", "e", "d">>
W_string == <<"s", "t", "r", "i", "n", "g">>
W_int == <<"i", "n", "t">>
W_bool == <<"b", "o", "o", "l">>
W_url == <<"u", "r", "l">>
W_email == <<"e", "m", "a", "i", "l">>

\* the list the type detection walks, in its order
TypeNames == <<W_string, W_int, W_bool, W_url, W_email>>

\* [A-Z_][A-Z0-9_]* : the length of the longest prefix of s the key pattern matches
RECURSIVE key_chars(_)
key_chars(s) ==
    IF s # <<>> /\ Head(s) \in Range(UpperCase) \cup Digits \cup {"_"}
    THEN 1 + key_chars(Tail(s))
    ELSE 0

key_len(s) ==
    IF s # <<>> /\ Head(s) \in Range(UpperCase) \cup {"_"} THEN 1 + key_chars(Tail(s)) ELSE 0

\* what follows the key and \s*=\s* , or None when the pattern does not match
after_equals(s) ==
    LET rest == lstrip(SubSeq(s, key_len(s) + 1, Len(s)))
    IN  IF key_len(s) = 0 \/ rest = <<>> \/ Head(rest) # "=" THEN None
        ELSE lstrip(Tail(rest))

\* group 2 of the pattern, stripped: the text up to the first '#'
default_of(s) ==
    LET r == after_equals(s)
        h == find(r, "#")
    IN  strip(IF h = 0 THEN r ELSE SubSeq(r, 1, h - 1))

\* group 3 of the pattern, or '': the text after the first '#' and its blanks
comment_of(s) ==
    LET r == after_equals(s)
        h == find(r, "#")
    IN  IF h = 0 THEN <<>> ELSE lstrip(SubSeq(r, h + 1, Len(r)))

\* the first name of TypeNames the comment holds, or 'string'
type_of(comment) ==
    LET hits == { i \in 1..Len(TypeNames) : contains(lower(comment), TypeNames[i]) }
    IN  IF hits = {} THEN W_string
        ELSE TypeNames[CHOOSE i \in hits : \A j \in hits : i <= j]

\* metadata['required'] as parse_template_line leaves it
required_of(comment) ==
    IF ~contains(lower(comment), W_optional) THEN TRUE
    ELSE contains(lower(comment), W_required)

metadata_of(comment) ==
    [ required  |-> required_of(comment),
      optional  |-> contains(lower(comment), W_optional),
      encrypted |-> contains(lower(comment), W_encrypted),
      type      |-> type_of(comment) ]

\* (key, default_value, metadata), or None
parse_template_line(raw) ==
    LET s == strip(raw)
    IN  IF s = <<>> \/ Head(s) = "#" THEN None
        ELSE IF after_equals(s) = None THEN None
        ELSE <<SubSeq(s, 1, key_len(s)), default_of(s), metadata_of(comment_of(s))>>

-----------------------------------------------------------------------------
(* The template lines parse_template_line is applied to *)

\* the number of tags in the comment of a template line
MaxTags == 2

Tags == { W_required, W_optional, W_encrypted, W_int, W_url,
          <<"O", "p", "t", "i", "o", "n", "a", "l">>,
          <<"n", "o", "t", "e">> }

TagSeqs == UNION { [1..n -> Tags] : n \in 0..MaxTags }

\* tags joined by ', '
RECURSIVE join_tags(_)
join_tags(ts) ==
    IF ts = <<>> THEN <<>>
    ELSE IF Len(ts) = 1 THEN ts[1]
    ELSE ts[1] \o <<",", " ">> \o join_tags(Tail(ts))

Comments == { <<>> } \cup { <<" ", " ", "#", " ">> \o join_tags(ts) : ts \in TagSeqs }

Heads ==
    { <<"P", "O", "R", "T", "=", "8", "0">>,               \* PORT=80
      <<"D", "B", "_", "1", " ", "=", " ", "u">>,          \* DB_1 = u
      <<"M", "=", "o", "p", "t", "i", "o", "n", "a", "l">>,\* the value holds a tag
      <<"p", "=", "1">>,                                   \* not a key
      <<"#", " ", "P", "=", "1">> }                        \* a comment line

TemplateLines == { h \o c : h \in Heads, c \in Comments } \cup { <<>>, <<" ">> }

InitParse ==
    /\ line \in TemplateLines
    /\ result = None
    /\ ops = <<>>
    /\ file = NoFile
    /\ orig = NoFile
    /\ template = NoFile
    /\ environ = <<>>
    /\ exit_code = 0
    /\ stderr = <<>>

Parse ==
    /\ ops = <<>>
    /\ result' = parse_template_line(line)
    /\ ops' = << <<"parse_template_line">> >>
    /\ UNCHANGED <<line, file, orig, template, environ, exit_code, stderr>>

NextParse == Parse

SpecParse == InitParse /\ [][NextParse]_vars

\* C3: for every template line that parses to a declaration, required is false
\* whenever the comment holds 'optional' (in any case), also when it holds
\* 'required' too, and required is true whenever 'optional' is absent.
C3_OptionalWins ==
    (ops # <<>> /\ result # None) =>
        result[3].required = ~contains(lower(comment_of(strip(line))), W_optional)

-----------------------------------------------------------------------------
(* generate_env_file *)

\* env_vars[key] = value on a dict kept as its items in insertion order
dict_set(d, k, v) ==
    IF \E i \in 1..Len(d) : d[i][1] = k
    THEN [i \in 1..Len(d) |-> IF d[i][1] = k THEN <<k, v>> ELSE d[i]]
    ELSE Append(d, <<k, v>>)

\* resolve with the interactive branch tested before the process environment
resolve_interactive_first(parsed, env, interactive, answer) ==
    IF interactive
    THEN IF strip(answer) # <<>> THEN strip(answer) ELSE parsed[2]
    ELSE IF parsed[1] \in DOMAIN env THEN env[parsed[1]]
    ELSE parsed[2]

\* the value generate_env_file resolves for one parsed line; answer is what
\* input(prompt) returns when the user is asked
resolve(parsed, env, interactive, answer) ==
    IF parsed[1] \in DOMAIN env THEN env[parsed[1]]
    ELSE IF interactive
         THEN IF strip(answer) # <<>> THEN strip(answer) ELSE parsed[2]
         ELSE parsed[2]

\* whether the loop calls input() for this parsed line
prompts(parsed, env, interactive) == parsed[1] \notin DOMAIN env /\ interactive

\* the loop over the template lines: env_vars after the lines, starting from
\* env_vars = d with stdin the answers not yet read
RECURSIVE generate_loop(_, _, _, _, _)
generate_loop(lines, env, interactive, stdin, d) ==
    IF lines = <<>> THEN d
    ELSE LET parsed == parse_template_line(Head(lines))
         IN  IF parsed = None
             THEN generate_loop(Tail(lines), env, interactive, stdin, d)
             ELSE generate_loop(
                    Tail(lines), env, interactive,
                    IF prompts(parsed, env, interactive) THEN Tail(stdin) ELSE stdin,
                    dict_set(d, parsed[1],
                             resolve(parsed, env, interactive,
                                     IF prompts(parsed, env, interactive)
                                     THEN Head(stdin) ELSE <<>>)))

\* the text generate_env_file writes to the output file
generate_env_file(template_text, env, interactive, stdin) ==
    LET d == generate_loop(split(template_text), env, interactive, stdin, <<>>)
    IN  written([i \in 1..Len(d) |-> d[i][1] \o <<"=">> \o d[i][2]])

-----------------------------------------------------------------------------
(* validate_env_file *)

\* dotenv_values on a file of plain lines: the last KEY=VALUE of a key gives
\* its value; a key on a line of its own has the value None
RECURSIVE dotenv_loop(_, _)
dotenv_loop(lines, d) ==
    IF lines = <<>> THEN d
    ELSE LET ln == strip(Head(lines))
         IN  IF ln = <<>> \/ Head(ln) = "#"
             THEN dotenv_loop(Tail(lines), d)
             ELSE IF find(ln, "=") = 0
             THEN dotenv_loop(Tail(lines), dict_set(d, ln, None))
             ELSE dotenv_loop(Tail(lines),
                              dict_set(d, strip(key_part(ln)), value_part(ln)))

dotenv_values(text) == dotenv_loop(split(text), <<>>)

dict_has(d, k) == \E i \in 1..Len(d) : d[i][1] = k

dict_get(d, k) == d[CHOOSE i \in 1..Len(d) : d[i][1] = k][2]

\* int(value) returns rather than raising ValueError
is_int(v) ==
    LET digits == IF v # <<>> /\ Head(v) \in {"+", "-"} THEN Tail(v) ELSE v
    IN  digits # <<>> /\ \A i \in 1..Len(digits) : digits[i] \in Digits

BoolWords == { <<"t", "r", "u", "e">>, <<"f", "a", "l", "s", "e">>, <<"y", "e", "s">>, <<"n", "o">>, <<"1">>, <<"0">> }

\* validators.url on the values of the model: scheme://host
is_url(v) ==
    \E i \in 2..(Len(v) - 3) : SubSeq(v, i, i + 2) = <<":", "/", "/">>

\* validators.email on the values of the model: local@domain.tld
is_email(v) ==
    LET at == find(v, "@")
    IN  /\ at > 1
        /\ find(SubSeq(v, at + 1, Len(v)), "@") = 0
        /\ find(SubSeq(v, at + 1, Len(v)), ".") > 1
        /\ Last(v) # "."

\* the first loop of validate_env_file: required_vars
RECURSIVE required_loop(_, _)
required_loop(lines, d) ==
    IF lines = <<>> THEN d
    ELSE LET parsed == parse_template_line(Head(lines))
         IN  IF parsed = None \/ ~parsed[3].required
             THEN required_loop(Tail(lines), d)
             ELSE required_loop(Tail(lines), dict_set(d, parsed[1], parsed[3]))

MissingError(key) == <<"Required variable '", key, "' is missing">>

TypeError(key, what) == <<"Variable '", key, what>>

\* is_missing without the test of the value: only a key not in env_vars
is_missing_absent_only(key, env_vars) == ~dict_has(env_vars, key)

\* whether the second loop reports the variable missing
is_missing(key, env_vars) ==
    ~dict_has(env_vars, key) \/ dict_get(env_vars, key) \in {None, <<>>}

\* the errors the second loop appends for one required variable
check_variable(key, metadata, env_vars) ==
    IF is_missing(key, env_vars)
    THEN <<MissingError(key)>>
    ELSE LET value == dict_get(env_vars, key)
         IN  IF metadata.type = W_int
             THEN IF is_int(value) THEN <<>> ELSE <<TypeError(key, "' must be an integer")>>
             ELSE IF metadata.type = W_bool
             THEN IF lower(value) \in BoolWords THEN <<>>
                  ELSE <<TypeError(key, "' must be a boolean")>>
             ELSE IF metadata.type = W_url
             THEN IF is_url(value) THEN <<>> ELSE <<TypeError(key, "' must be a valid URL")>>
             ELSE IF metadata.type = W_email
             THEN IF is_email(value) THEN <<>>
                  ELSE <<TypeError(key, "' must be a valid email")>>
             ELSE <<>>

RECURSIVE check_loop(_, _)
check_loop(required_vars, env_vars) ==
    IF required_vars = <<>> THEN <<>>
    ELSE check_variable(Head(required_vars)[1], Head(required_vars)[2], env_vars)
            \o check_loop(Tail(required_vars), env_vars)

\* the list validate_env_file returns; template_text is NoFile when the
\* template path is not given or names no file
validate_env_file(env_text, template_text) ==
    IF template_text = NoFile THEN <<>>
    ELSE check_loop(required_loop(split(template_text), <<>>), dotenv_values(env_text))

-----------------------------------------------------------------------------
(* The templates, process environments and answers of the model *)

\* the number of lines of a template
MaxDecls == 2

\* the number of lines of the environment file validate_env_file reads
MaxEnvLines == 2

K_PORT == <<"P", "O", "R", "T">>
K_DB == <<"D", "B">>

TemplatePool ==
    { <<"P", "O", "R", "T", "=", "8", "0", " ", " ", "#", " ", "i", "n", "t", ",", " ", "r", "e", "q", "u", "i", "r", "e", "d">>,
      <<"P", "O", "R", "T", "=", "9", " ", " ", "#", " ", "o", "p", "t", "i", "o", "n", "a", "l">>,
      <<"P", "O", "R", "T", "=", "1", " ", " ", "#", " ", "b", "o", "o", "l">>,
      <<"D", "B", "=", "u", " ", " ", "#", " ", "u", "r", "l">>,
      <<"#", " ", "n", "o", "t", "e">> }

Templates == { written(ls) : ls \in UNION { [1..n -> TemplatePool] : n \in 1..MaxDecls } }

Environs ==
    { <<>>,
      [k \in {K_PORT} |-> <<"7">>],
      [k \in {K_PORT} |-> <<>>],
      [k \in {K_DB} |-> <<"e">>] }

\* what the user may type at a prompt
Answers == { <<>>, <<" ">>, <<"z">>, <<" ", "z", " ">> }

\* the parsed lines of a template, None where a line declares nothing
Declarations(template_text) ==
    LET lines == split(template_text)
    IN  [i \in 1..Len(lines) |-> parse_template_line(lines[i])]

\* the lines, among the parsed lines ds, at which generate_env_file calls input()
PromptLines(ds, env, interactive) ==
    { i \in 1..Len(ds) : ds[i] # None /\ prompts(ds[i], env, interactive) }

InitGenerate ==
    /\ template \in Templates
    /\ environ \in Environs
    /\ file = NoFile
    /\ orig = NoFile
    /\ ops = <<>>
    /\ line = <<>>
    /\ result = None
    /\ exit_code = 0
    /\ stderr = <<>>

Generate ==
    /\ ops = <<>>
    /\ \E interactive \in BOOLEAN :
       \E stdin \in [1..Cardinality(PromptLines(Declarations(template), environ, interactive))
                        -> Answers] :
          /\ file' = generate_env_file(template, environ, interactive, stdin)
          /\ ops' = << <<"generate", interactive, stdin>> >>
    /\ UNCHANGED <<orig, template, environ, line, result, exit_code, stderr>>

NextGenerate == Generate

SpecGenerate == InitGenerate /\ [][NextGenerate]_vars

\* the lines of ds that declare key k
DeclaringLines(ds, k) == { i \in 1..Len(ds) : ds[i] # None /\ ds[i][1] = k }

\* the keys the parsed lines ds declare
DeclaredKeys(ds) == { ds[i][1] : i \in { j \in 1..Len(ds) : ds[j] # None } }

\* the line of the last declaration of key k
LastDeclaration(ds, k) ==
    CHOOSE i \in DeclaringLines(ds, k) : \A j \in DeclaringLines(ds, k) : j <= i

\* the text after the first '=' of a line, as written
raw_value(ln) == SubSeq(ln, find(ln, "=") + 1, Len(ln))

\* C5: for every declared key, generate_env_file writes one line, whose value
\* is the process-environment value when the key is in the process
\* environment (also in interactive mode and with a default); otherwise, in
\* interactive mode, the (trimmed) answer to the key's prompt when that is not
\* empty and the template default when it is; otherwise the template default.
\* The default and the prompt are those of the key's last declaration.
C5_ResolutionPriority ==
    ops # <<>> =>
        LET ds == Declarations(template)
            out == split(file)
            interactive == ops[1][2]
            asked == PromptLines(ds, environ, interactive)
        IN  \A k \in DeclaredKeys(ds) :
                LET i == LastDeclaration(ds, k)
                    n == Cardinality({ j \in asked : j <= i })
                    expected ==
                        IF k \in DOMAIN environ THEN environ[k]
                        ELSE IF interactive /\ strip(ops[1][3][n]) # <<>>
                        THEN strip(ops[1][3][n])
                        ELSE ds[i][2]
                    written_for_k ==
                        { j \in 1..Len(out) : find(out[j], "=") # 0 /\ key_part(out[j]) = k }
                IN  /\ Cardinality(written_for_k) = 1
                    /\ \A j \in written_for_k : raw_value(out[j]) = expected

\* C5 witness: interactive mode, PORT in the process environment, declared
\* with a default, and DB answered at its prompt.
C5_Witness ==
    /\ ops # <<>>
    /\ ops[1][2] = TRUE
    /\ ops[1][3] = << <<" ", "z", " ">> >>
    /\ environ = [k \in {K_PORT} |-> <<"7">>]
    /\ file = <<"P", "O", "R", "T", "=", "7">> \o <<NL>> \o <<"D", "B", "=", "z">> \o <<NL>>

-----------------------------------------------------------------------------
(* The environment files validate_env_file reads *)

EnvPool ==
    { <<"P", "O", "R", "T", "=", "5", "4", "3", "2">>,
      <<"P", "O", "R", "T", "=", "a", "b", "c">>,
      <<"P", "O", "R", "T", "=">>,
      <<"P", "O", "R", "T">>,
      <<"D", "B", "=", "h", ":", "/", "/", "x">>,
      <<"D", "B", "=", "y", "e", "s">> }

ValidatedFiles ==
    { written(ls) : ls \in UNION { [1..n -> EnvPool] : n \in 0..MaxEnvLines } }

InitValidate ==
    /\ file \in ValidatedFiles
    /\ template \in Templates \cup {NoFile}
    /\ orig = file
    /\ ops = <<>>
    /\ environ = <<>>
    /\ line = <<>>
    /\ result = None
    /\ exit_code = 0
    /\ stderr = <<>>

Validate ==
    /\ ops = <<>>
    /\ result' = validate_env_file(file, template)
    /\ ops' = << <<"validate">> >>
    /\ UNCHANGED <<file, orig, template, environ, line, exit_code, stderr>>

NextValidate == Validate

SpecValidate == InitValidate /\ [][NextValidate]_vars

\* the keys some declaration among ds marks required
RequiredKeys(ds) ==
    { ds[i][1] : i \in { j \in 1..Len(ds) : ds[j] # None /\ ds[j][3].required } }

\* the name a line of the environment file gives a value to, None for a
\* blank line or a comment
name_of(ln) ==
    IF strip(ln) = <<>> \/ Head(strip(ln)) = "#" THEN None
    ELSE IF find(ln, "=") = 0 THEN strip(ln)
    ELSE strip(key_part(ln))

\* the lines of an environment file give key k no value, or the empty one: no
\* line names k, or the last that does is k alone or k with nothing after '='
NoValue(lines, k) ==
    LET named == { i \in 1..Len(lines) : name_of(lines[i]) = k }
    IN  \/ named = {}
        \/ LET i == CHOOSE i \in named : \A j \in named : j <= i
           IN  find(lines[i], "=") = 0 \/ value_part(lines[i]) = <<>>

\* the errors of a list that are about key k
ErrorsAbout(errs, k) == { i \in 1..Len(errs) : errs[i][2] = k }

\* C6: for a key declared required, validate_env_file reports "Required
\* variable '<key>' is missing" exactly when the environment file gives the
\* key no value or the empty one; it then reports no type error for the key.
C6_MissingExactlyWhenAbsentOrEmpty ==
    (ops # <<>> /\ template # NoFile) =>
        LET ds == Declarations(template)
            lines == split(file)
        IN  \A k \in RequiredKeys(ds) :
                /\ (\E i \in 1..Len(result) : result[i] = MissingError(k))
                      <=> NoValue(lines, k)
                /\ NoValue(lines, k) =>
                      \A i \in ErrorsAbout(result, k) : result[i] = MissingError(k)

\* C6 witness: PORT is declared required with type int, the file holds
\* PORT= with nothing after it, and the missing error is the only error.
C6_Witness ==
    /\ ops # <<>>
    /\ template = written(<< <<"P", "O", "R", "T", "=", "8", "0", " ", " ", "#", " ", "i", "n", "t", ",", " ", "r", "e", "q", "u", "i", "r", "e", "d">> >>)
    /\ file = written(<< <<"P", "O", "R", "T", "=">> >>)
    /\ result = << MissingError(K_PORT) >>

\* C9: validate_env_file treats a key declared more than once by its last
\* declaration only: a key whose last declaration is optional gets no error,
\* and a key whose last declaration is required gets the errors of that
\* declaration's type.
C9_LastDeclarationWins ==
    (ops # <<>> /\ template # NoFile) =>
        LET ds == Declarations(template)
            env_vars == dotenv_values(file)
        IN  \A k \in DeclaredKeys(ds) :
                LET m == ds[LastDeclaration(ds, k)][3]
                IN  /\ ~m.required => ErrorsAbout(result, k) = {}
                    /\ m.required =>
                          \A i \in ErrorsAbout(result, k) :
                              <<result[i]>> = check_variable(k, m, env_vars)

-----------------------------------------------------------------------------
(* The commands of cli.py.  Each command is one run of the program: ops     *)
(* holds the command of the last run and how it went, exit_code its exit    *)
(* status and stderr what it wrote to standard error.  A core operation     *)
(* that raises does so on reading its input or on opening its output, and   *)
(* leaves the files as they were.                                           *)

NotFound(what, path) == <<"Error: ", what, " file '", path, "' not found.">>

Raised == <<"Error: ", "{e}">>

ValidationFailed(errors) ==
    <<"Validation failed:">> \o [i \in 1..Len(errors) |-> <<"  - ", errors[i]>>]

CliFiles ==
    { NoFile,
      written(<< <<"A", "=", "1">> >>),
      written(<< <<"B", "=", " ", "x", " ">>, <<"P", "O", "R", "T", "=", "a">> >>) }

CliTemplates ==
    { NoFile,
      written(<< <<"P", "O", "R", "T", "=", "8", " ", "#", " ", "i", "n", "t">> >>),
      written(<< <<"D", "B", "=", "u", " ", "#", " ", "o", "p", "t", "i", "o", "n", "a", "l">> >>) }

\* what the user may type at a prompt of the generate command
CliAnswers == { <<>>, <<"z">> }

\* the environment file is short enough for one more command: each encrypt
\* and decrypt makes it one line longer
Rewritable == file = NoFile \/ Len(split(file)) <= MaxOps + 2

InitCli ==
    /\ file \in CliFiles
    /\ orig = file
    /\ template \in CliTemplates
    /\ environ = <<>>
    /\ ops = <<>>
    /\ line = <<>>
    /\ result = None
    /\ exit_code = 0
    /\ stderr = <<>>

\* generate: --template .env.example, --output .env
generate ==
    /\ Rewritable
    /\ \/ /\ template = NoFile
          /\ stderr' = << NotFound("Template", ".env.example") >>
          /\ ops' = << <<"generate", "missing">> >>
          /\ UNCHANGED file
       \/ /\ template # NoFile
          /\ \E interactive \in BOOLEAN :
             \E stdin \in [1..Cardinality(PromptLines(Declarations(template), environ,
                                                      interactive)) -> CliAnswers] :
                file' = generate_env_file(template, environ, interactive, stdin)
          /\ stderr' = <<>>
          /\ ops' = << <<"generate", "done">> >>
       \/ /\ template # NoFile
          /\ stderr' = << Raised >>
          /\ ops' = << <<"generate", "raised">> >>
          /\ UNCHANGED file
    /\ exit_code' = 0
    /\ result' = None
    /\ UNCHANGED <<orig, template, environ, line>>

\* validate: --file .env, --template .env.example
validate ==
    /\ Rewritable
    /\ \/ /\ file = NoFile
          /\ stderr' = << NotFound("Environment", ".env") >>
          /\ ops' = << <<"validate", "missing">> >>
          /\ exit_code' = 0
          /\ result' = None
       \/ /\ file # NoFile
          /\ result' = validate_env_file(file, template)
          /\ stderr' = IF result' # <<>> THEN ValidationFailed(result') ELSE <<>>
          /\ exit_code' = IF result' # <<>> THEN 1 ELSE 0
          /\ ops' = << <<"validate", "done">> >>
       \/ /\ file # NoFile
          /\ stderr' = << Raised >>
          /\ ops' = << <<"validate", "raised">> >>
          /\ exit_code' = 1
          /\ result' = None
    /\ UNCHANGED <<file, orig, template, environ, line>>

\* encrypt: --file .env, --key
encrypt ==
    /\ Rewritable
    /\ \/ /\ file = NoFile
          /\ stderr' = << NotFound("Environment", ".env") >>
          /\ ops' = << <<"encrypt", "missing">> >>
          /\ UNCHANGED file
       \/ /\ file # NoFile
          /\ \E key \in Passwords :
             \E drawn \in [NeedsIV(file) -> IVs] :
                LET ivs == [i \in 1..Len(split(file)) |->
                              IF i \in DOMAIN drawn THEN drawn[i] ELSE "iv0"]
                IN  file' = encrypt_env_file(file, key, ivs)
          /\ stderr' = <<>>
          /\ ops' = << <<"encrypt", "done">> >>
       \/ /\ file # NoFile
          /\ stderr' = << Raised >>
          /\ ops' = << <<"encrypt", "raised">> >>
          /\ UNCHANGED file
    /\ exit_code' = 0
    /\ result' = None
    /\ UNCHANGED <<orig, template, environ, line>>

\* decrypt: --file .env, --key
decrypt ==
    /\ Rewritable
    /\ \/ /\ file = NoFile
          /\ stderr' = << NotFound("Environment", ".env") >>
          /\ ops' = << <<"decrypt", "missing">> >>
          /\ UNCHANGED file
       \/ /\ file # NoFile
          /\ \E key \in Passwords : file' = decrypt_env_file(file, key)
          /\ stderr' = <<>>
          /\ ops' = << <<"decrypt", "done">> >>
       \/ /\ file # NoFile
          /\ stderr' = << Raised >>
          /\ ops' = << <<"decrypt", "raised">> >>
          /\ UNCHANGED file
    /\ exit_code' = 0
    /\ result' = None
    /\ UNCHANGED <<orig, template, environ, line>>

NextCli == generate \/ validate \/ encrypt \/ decrypt

SpecCli == InitCli /\ [][NextCli]_vars

\* C8: generate, encrypt and decrypt exit with a non-zero status, after an
\* error message on standard error, whenever the core operation raises; they
\* exit 0 and change no file when the input file is missing; validate exits
\* non-zero whenever the list of errors is not empty.
C8_ExitStatus ==
    /\ [](ops # <<>> =>
            /\ (ops[1][1] \in {"generate", "encrypt", "decrypt"} /\ ops[1][2] = "raised")
                  => (exit_code # 0 /\ stderr # <<>>)
            /\ (ops[1][1] \in {"generate", "encrypt", "decrypt"} /\ ops[1][2] = "missing")
                  => exit_code = 0
            /\ (ops[1] = <<"validate", "done">> /\ result # <<>>) => exit_code # 0)
    /\ [][ (ops' # <<>> /\ ops'[1][2] = "missing") => UNCHANGED <<file, template>> ]_vars

=============================================================================
